---- MODULE Spec2Model ----
(***************************************************************************)
(* Model of the documentation-tag policy of summit-milan-2025:             *)
(* DocumentationAspect (infra/lib/aspects), the CDK aspect that checks     *)
(* every CloudFormation resource of a construct tree for required tags     *)
(* and annotates the resource with a warning or an error.                  *)
(*                                                                         *)
(* Optional values (a TypeScript `T | undefined`) are sequences of length  *)
(* at most one: <<>> is undefined, <<v>> is the value v.                   *)
(* A construct path 'a/b/c' is the sequence of its construct ids; a        *)
(* joined list 'k1, k2' is the sequence of its parts.                      *)
(***************************************************************************)
EXTENDS Integers, Sequences, FiniteSets, TLC

\* ------------------------------------------------------------------ bounds

\* Number of constructs of the tree a synthesis visits.
MaxNodes == 2
\* Length of the requiredTags list of the aspect's props.
MaxRequired == 2
\* Number of tags a resource's tag manager holds.
MaxTags == 2

\* ------------------------------------------------------------------ inputs

\* Tag keys a requiredTags list names.
RequiredKeys == {"Owner", "Purpose"}

\* Tag keys and values found on resources ("owner" differs from "Owner" in
\* letter case only; "" is the empty tag value).
TagKeys == {"Owner", "owner", "Purpose"}

TagValues == {"", "team-x"}

\* cfnResourceType of the CloudFormation resources of the tree.
CfnTypes ==
  {"AWS::S3::Bucket", "AWS::DynamoDB::Table", "AWS::CloudFormation::Output",
   "AWS::CDK::Metadata", "Custom::CDKBucketDeployment"}

\* cfnResourceType read from a construct that is not a CfnResource.
NoType == "-"

SeqsUpTo(S, n) == UNION {[1..k -> S] : k \in 0..n}

Some(v) == <<v>>

None == <<>>

IsSome(o) == Len(o) = 1

\* The tags field of a TagManager: the tags in insertion order, each a
\* <<key, value>> pair, keys unique.
TagFields ==
  {t \in SeqsUpTo(TagKeys \X TagValues, MaxTags) :
     \A i, j \in 1..Len(t) : t[i][1] = t[j][1] => i = j}

\* (resource as any).tags: undefined, a tag manager whose tags field is
\* undefined, or a tag manager holding tags.
TagManagers == {[tags |-> None]} \cup {[tags |-> Some(t)] : t \in TagFields}

ResourceTags == {None} \cup {Some(m) : m \in TagManagers}

\* The tags of the constructs whose tags are not varied exhaustively: none,
\* an empty tag manager, and one holding both required keys.
FewTags == {None, Some([tags |-> Some(<<>>)]),
                Some([tags |-> Some(<<<<"Owner", "team-x">>, <<"Purpose", "">>>>)])}

\* props of new DocumentationAspect(props)
DocumentationAspectProps ==
  [requiredTags : SeqsUpTo(RequiredKeys, MaxRequired),
   strict : {None, Some(TRUE), Some(FALSE)},
   excludeResourceTypes : {None, Some(<<"AWS::S3::Bucket">>)}]

\* ------------------------------------------------------------------ DocumentationAspect

Includes(seq, x) == \E i \in 1..Len(seq) : seq[i] = x

\* a ?? b
Coalesce(a, b) == IF IsSome(a) THEN a[1] ELSE b

\* constructor with strict defaulting to true.
constructorStrictByDefault(props) ==
  [requiredTags |-> props.requiredTags,
   strict |-> Coalesce(props.strict, TRUE),
   excludeResourceTypes |-> Coalesce(props.excludeResourceTypes, <<>>)]

constructor(props) ==
  [requiredTags |-> props.requiredTags,
   strict |-> Coalesce(props.strict, FALSE),
   excludeResourceTypes |-> Coalesce(props.excludeResourceTypes, <<>>)]

\* nonTaggableResources without the deployment helper.
nonTaggableResourcesShort ==
  <<"AWS::CloudFormation::Output", "AWS::CDK::Metadata">>

nonTaggableResources ==
  <<"AWS::CloudFormation::Output", "AWS::CDK::Metadata", "Custom::CDKBucketDeployment">>

\* Object.values(tagsField) taken for the keys.
ObjectValues(tagsField) == [i \in 1..Len(tagsField) |-> tagsField[i][2]]

\* Object.keys(tagsField)
ObjectKeys(tagsField) == [i \in 1..Len(tagsField) |-> tagsField[i][1]]

getResourceTags(resource) == resource.tags

\* hasTag deciding by the truthiness of the tag's value.
hasTagByValue(tags, tagKey) ==
  IF ~IsSome(tags) THEN FALSE
  ELSE LET tagsField == tags[1].tags
       IN  /\ IsSome(tagsField)
           /\ \E i \in 1..Len(tagsField[1]) :
                tagsField[1][i][1] = tagKey /\ tagsField[1][i][2] # ""

\* hasTag taking a resource without tag manager to carry every tag.
hasTagUnlessUntaggable(tags, tagKey) ==
  IF ~IsSome(tags) THEN TRUE
  ELSE LET tagsField == tags[1].tags
       IN  IsSome(tagsField) /\ Includes(ObjectKeys(tagsField[1]), tagKey)

hasTag(tags, tagKey) ==
  IF ~IsSome(tags) THEN FALSE
  ELSE LET tagsField == tags[1].tags
       IN  IsSome(tagsField) /\ Includes(ObjectKeys(tagsField[1]), tagKey)

\* The loop leaving at the first missing tag.
missingTagsFirstOnly(requiredTags, tags, n) ==
  LET absent == {i \in 1..n : ~hasTag(tags, requiredTags[i])}
  IN  IF absent = {} THEN <<>>
      ELSE <<requiredTags[CHOOSE i \in absent : \A j \in absent : i <= j]>>

\* The loop collecting with unshift instead of push.
RECURSIVE missingTagsUnshift(_, _, _)
missingTagsUnshift(requiredTags, tags, n) ==
  IF n = 0 THEN <<>>
  ELSE LET rest == missingTagsUnshift(requiredTags, tags, n - 1)
           requiredTag == requiredTags[n]
       IN  IF ~hasTag(tags, requiredTag) THEN <<requiredTag>> \o rest ELSE rest

\* The for loop of visit over this.requiredTags[1..n].
RECURSIVE missingTagsUpTo(_, _, _)
missingTagsUpTo(requiredTags, tags, n) ==
  IF n = 0 THEN <<>>
  ELSE LET rest == missingTagsUpTo(requiredTags, tags, n - 1)
           requiredTag == requiredTags[n]
       IN  IF ~hasTag(tags, requiredTag) THEN Append(rest, requiredTag) ELSE rest

\* The template string of the annotation, by its interpolated parts.
Message(resourceId, resourceType, missingTags) ==
  [resourceId |-> resourceId, resourceType |-> resourceType, missingTags |-> missingTags]

\* addError given a message cut to the first missing tag.
addErrorFirstTag(node, message) ==
  [path |-> node.path, level |-> "error",
   message |-> [message EXCEPT !.missingTags = SubSeq(message.missingTags, 1, 1)]]

\* Annotations.of(node).addError(message) / addWarning(message)
addError(node, message) == [path |-> node.path, level |-> "error", message |-> message]

addWarning(node, message) == [path |-> node.path, level |-> "warning", message |-> message]

\* visit without the excludeResourceTypes test.
visitNoExclusion(this, node) ==
  IF ~node.isCfnResource THEN <<>>
  ELSE IF Includes(nonTaggableResources, node.cfnResourceType) THEN <<>>
  ELSE LET tags == getResourceTags(node)
           missingTags == missingTagsUpTo(this.requiredTags, tags, Len(this.requiredTags))
       IN  IF Len(missingTags) > 0
           THEN LET message == Message(node.path, node.cfnResourceType, missingTags)
                IN  IF this.strict THEN <<addError(node, message)>>
                    ELSE <<addWarning(node, message)>>
           ELSE <<>>

\* visit(node): the annotations one call adds, in order.
visit(this, node) ==
  IF ~node.isCfnResource THEN <<>>
  ELSE IF Includes(this.excludeResourceTypes, node.cfnResourceType) THEN <<>>
  ELSE IF Includes(nonTaggableResources, node.cfnResourceType) THEN <<>>
  ELSE LET tags == getResourceTags(node)
           missingTags == missingTagsUpTo(this.requiredTags, tags, Len(this.requiredTags))
       IN  IF Len(missingTags) > 0
           THEN LET message == Message(node.path, node.cfnResourceType, missingTags)
                IN  IF this.strict THEN <<addError(node, message)>>
                    ELSE <<addWarning(node, message)>>
           ELSE <<>>

\* visit creating the tags field of a tag manager that has none.
nodeWithTagsFieldCreated(this, node) ==
  IF IsSome(node.tags) /\ node.tags[1].tags = None
  THEN [node EXCEPT !.tags = Some([tags |-> Some(<<>>)])]
  ELSE node

\* The construct after visit(node): visit reads node.cfnResourceType,
\* node.node.path and the tag manager, and assigns to none of them.
nodeAfterVisit(this, node) == node

\* visit remembering the resource types it has reported, to report each once.
thisRememberingReported(this, node) ==
  IF visit(this, node) # <<>>
  THEN [this EXCEPT !.excludeResourceTypes = Append(@, node.cfnResourceType)]
  ELSE this

\* The aspect after visit(node): its fields are readonly and visit keeps
\* missingTags in a local.
thisAfterVisit(this, node) == this

\* ------------------------------------------------------------------ constructs of the stacks

\* An optional boolean option: omitted, true, false.
OptionalFlags == {None, Some(TRUE), Some(FALSE)}

\* Truthiness of an optional boolean, as in `isProd || props.flag`.
Truthy(flag) == flag = Some(TRUE)

\* `a || b` on an optional string: the empty string is falsy.
OrElse(a, b) == IF IsSome(a) /\ a[1] # "" THEN a[1] ELSE b

\* `n || d` on an optional number: 0 is falsy.
OrElseNumber(n, d) == IF IsSome(n) /\ n[1] # 0 THEN n[1] ELSE d

\* `flag !== undefined ? flag : cond`.
DefinedOr(flag, cond) == IF IsSome(flag) THEN flag[1] ELSE cond

\* A template string `${a}<infix>${b}`, kept as its parts.
Name(a, infix, b) == <<a, infix, b>>

AppNames == {"summit-milan-demo"}

Environments == {"dev", "staging", "prod"}

\* ---- ComplianceAspect

\* The five suppressions the app configures.
AppSuppressions ==
  <<"AwsSolutions-S1", "AwsSolutions-IAM5", "AwsSolutions-CFR4",
    "AwsSolutions-CFR5", "AwsSolutions-L1">>

ComplianceAspectProps ==
  {None} \cup
  {Some(p) : p \in [strict : OptionalFlags,
                    suppressions : {None, Some(<<>>), Some(<<"AwsSolutions-S1">>),
                                    Some(AppSuppressions)}]}

\* new ComplianceAspect(scope, id, props): the props handed to
\* AwsSolutionsChecks and the suppressions added to the stack.
ComplianceAspect(props) ==
  [class |-> "ComplianceAspect",
   props |-> props,
   checks |-> [verbose |-> TRUE,
               logIgnores |-> IF IsSome(props) THEN Coalesce(props[1].strict, FALSE)
                              ELSE FALSE],
   stackSuppressions |->
     IF IsSome(props) /\ IsSome(props[1].suppressions)
        /\ Len(props[1].suppressions[1]) > 0
     THEN props[1].suppressions[1]
     ELSE <<>>]

\* ---- DatabaseConstruct

DatabaseConstructProps ==
  [appName : AppNames,
   environment : Environments,
   enablePointInTimeRecovery : OptionalFlags,
   preserveTableOnDelete : OptionalFlags,
   tags : {None, Some(<<<<"DataProtection", "High">>, <<"BackupFrequency", "Daily">>>>)}]

\* A DatabaseConstruct whose point-in-time recovery follows the option alone.
DatabaseConstructRecoveryByOption(props) ==
  LET isProd == props.environment = "prod"
  IN  [class |-> "DatabaseConstruct",
       props |-> props,
       eventsTable |->
         [tableName |-> Name(props.appName, "-events-", props.environment),
          removalPolicy |-> IF isProd \/ Truthy(props.preserveTableOnDelete)
                            THEN "RETAIN" ELSE "DESTROY",
          pointInTimeRecovery |-> props.enablePointInTimeRecovery,
          tags |-> <<<<"Purpose", "Stores event data">>,
                     <<"DataClassification", "Non-sensitive">>,
                     <<"DataRetention", IF isProd THEN "Retained" ELSE "Temporary">>>>
                   \o Coalesce(props.tags, <<>>)]]

\* A DatabaseConstruct whose removal policy follows preserveTableOnDelete alone.
DatabaseConstructPreserveOnly(props) ==
  LET isProd == props.environment = "prod"
  IN  [class |-> "DatabaseConstruct",
       props |-> props,
       eventsTable |->
         [tableName |-> Name(props.appName, "-events-", props.environment),
          removalPolicy |-> IF Truthy(props.preserveTableOnDelete)
                            THEN "RETAIN" ELSE "DESTROY",
          pointInTimeRecovery |-> IF isProd THEN Some(TRUE)
                                  ELSE props.enablePointInTimeRecovery,
          tags |-> <<<<"Purpose", "Stores event data">>,
                     <<"DataClassification", "Non-sensitive">>,
                     <<"DataRetention", IF isProd THEN "Retained" ELSE "Temporary">>>>
                   \o Coalesce(props.tags, <<>>)]]

\* new DatabaseConstruct(scope, id, props): the events table.
\* `isProd || props.enablePointInTimeRecovery` is true in production and the
\* option itself (true, false or undefined) elsewhere.
DatabaseConstruct(props) ==
  LET isProd == props.environment = "prod"
  IN  [class |-> "DatabaseConstruct",
       props |-> props,
       eventsTable |->
         [tableName |-> Name(props.appName, "-events-", props.environment),
          removalPolicy |-> IF isProd \/ Truthy(props.preserveTableOnDelete)
                            THEN "RETAIN" ELSE "DESTROY",
          pointInTimeRecovery |-> IF isProd THEN Some(TRUE)
                                  ELSE props.enablePointInTimeRecovery,
          tags |-> <<<<"Purpose", "Stores event data">>,
                     <<"DataClassification", "Non-sensitive">>,
                     <<"DataRetention", IF isProd THEN "Retained" ELSE "Temporary">>>>
                   \o Coalesce(props.tags, <<>>)]]

\* ---- FrontendConstruct

NoS3Config == [autoDeleteObjects |-> None, preserveBucketOnDelete |-> None]

NoCloudfrontConfig ==
  [enableCompression |-> None, enableLogging |-> None, minimumProtocolVersion |-> None]

FrontendConstructProps ==
  [appName : AppNames,
   environment : Environments,
   s3 : {None} \cup {Some(c) : c \in [autoDeleteObjects : OptionalFlags,
                                      preserveBucketOnDelete : OptionalFlags]},
   cloudfront : {None,
                 Some([enableCompression |-> None, enableLogging |-> Some(TRUE),
                       minimumProtocolVersion |-> Some("TLS_V1_2_2021")]),
                 Some([enableCompression |-> Some(FALSE), enableLogging |-> Some(FALSE),
                       minimumProtocolVersion |-> None])}]

\* new FrontendConstruct(scope, id, props): the website bucket and the
\* CloudFront distribution in front of it.
FrontendConstruct(props) ==
  LET isProd == props.environment = "prod"
      s3Config == Coalesce(props.s3, NoS3Config)
      cloudfrontConfig == Coalesce(props.cloudfront, NoCloudfrontConfig)
      securityPolicy == OrElse(cloudfrontConfig.minimumProtocolVersion, "TLS_V1_2_2021")
  IN  [class |-> "FrontendConstruct",
       props |-> props,
       websiteBucket |->
         [publicReadAccess |-> FALSE,
          blockPublicAccess |-> "BLOCK_ALL",
          removalPolicy |-> IF isProd \/ Truthy(s3Config.preserveBucketOnDelete)
                            THEN "RETAIN" ELSE "DESTROY",
          autoDeleteObjects |-> DefinedOr(s3Config.autoDeleteObjects, ~isProd),
          encryption |-> "S3_MANAGED",
          enforceSSL |-> TRUE,
          tags |-> <<<<"Purpose", "Static website hosting">>>>],
       distribution |->
         [compress |-> DefinedOr(cloudfrontConfig.enableCompression, TRUE),
          minimumProtocolVersion |-> securityPolicy,
          enableLogging |-> DefinedOr(cloudfrontConfig.enableLogging, TRUE),
          comment |-> Name(props.appName, " website distribution - ", props.environment),
          tags |-> <<<<"Purpose", "Content delivery">>,
                     <<"Security:TLSMinVersion", securityPolicy>>,
                     <<"Security:HttpsEnforced", "true">>,
                     <<"Security:HttpVersion", "HTTP2">>,
                     <<"Security:ContentSecurityPolicy", "Enabled">>>>]]

\* ---- DocumentedBucket

\* The bucket properties a caller can pass on; None is a key left out.
BucketPropsChoices ==
  [encryption : {None, Some("KMS"), Some("UNENCRYPTED")},
   blockPublicAccess : {None, Some("BLOCK_ACLS")},
   enforceSSL : {None, Some(FALSE)},
   versioned : OptionalFlags]

DocumentedBucketProps ==
  [purpose : {"Static assets"},
   owner : {"Platform"},
   dataClassification : {None, Some("Confidential")},
   environment : {"dev", "prod"},
   bucketName : {None, Some("assets")},
   bucketProps : {None} \cup {Some(b) : b \in BucketPropsChoices},
   generateDocumentationOutput : OptionalFlags]

\* `{ key: default, ...props.bucketProps }`: a key of bucketProps replaces the default.
Spread(default, bucketProps, key) ==
  IF IsSome(bucketProps) /\ IsSome(bucketProps[1][key])
  THEN bucketProps[1][key][1]
  ELSE default

\* generateMarkdownDocumentation(props): the title line and the lines under
\* '## Informazioni generali' and '## Configurazione' that depend on the
\* props modelled.
generateMarkdownDocumentation(props) ==
  LET isProd == props.environment = "prod"
  IN  [title |-> OrElse(props.bucketName, "<Nome generato automaticamente>"),
       Scopo |-> props.purpose,
       Proprietario |-> props.owner,
       ClassificazioneDati |-> OrElse(props.dataClassification, "Non-sensitive"),
       Ambiente |-> props.environment,
       Crittografia |-> IF IsSome(props.bucketProps)
                        THEN OrElse(props.bucketProps[1].encryption, "S3-Managed")
                        ELSE "S3-Managed",
       AccessoPubblico |-> "Bloccato",
       Versioning |-> IF isProd THEN "Abilitato" ELSE "Disabilitato",
       SSL |-> "Obbligatorio"]

\* new DocumentedBucket(scope, id, props): the bucket and, unless
\* generateDocumentationOutput is false, the Documentation output.
DocumentedBucket(props) ==
  LET isProd == props.environment = "prod"
  IN  [class |-> "DocumentedBucket",
       props |-> props,
       dataClassification |-> OrElse(props.dataClassification, "Non-sensitive"),
       bucket |->
         [bucketName |-> props.bucketName,
          tags |-> <<<<"Purpose", props.purpose>>,
                     <<"Owner", props.owner>>,
                     <<"DataClassification",
                       OrElse(props.dataClassification, "Non-sensitive")>>,
                     <<"Environment", props.environment>>,
                     <<"BusinessContext", "General">>,
                     <<"Criticality", "Medium">>,
                     <<"ManagedBy", "CDK">>,
                     <<"CreatedBy", "DocumentedBucket">>>>,
          encryption |-> Spread("S3_MANAGED", props.bucketProps, "encryption"),
          blockPublicAccess |-> Spread("BLOCK_ALL", props.bucketProps, "blockPublicAccess"),
          enforceSSL |-> Spread(TRUE, props.bucketProps, "enforceSSL"),
          versioned |-> Spread(isProd, props.bucketProps, "versioned"),
          removalPolicy |-> IF isProd THEN "RETAIN" ELSE "DESTROY",
          autoDeleteObjects |-> ~isProd],
       documentation |->
         IF props.generateDocumentationOutput # Some(FALSE)
         THEN Some(generateMarkdownDocumentation(props))
         ELSE None]

\* ---- BackendConstruct

BackendConstructProps ==
  [appName : AppNames,
   environment : Environments,
   lambda : {None,
             Some([memorySize |-> None, timeout |-> None, logLevel |-> None]),
             Some([memorySize |-> Some(512), timeout |-> Some(30), logLevel |-> Some("INFO")]),
             Some([memorySize |-> Some(256), timeout |-> Some(30), logLevel |-> Some("DEBUG")])},
   api : {None} \cup {Some([enableTracing |-> f]) : f \in OptionalFlags}]

\* setupApiRoutes(lambdaIntegration): the methods added, in order, each with
\* its request validator.
setupApiRoutes ==
  <<[method |-> "GET", path |-> "/events", requestValidator |-> "EventsGetValidator"],
    [method |-> "POST", path |-> "/events", requestValidator |-> "EventsPostValidator"],
    [method |-> "GET", path |-> "/events/{eventId}", requestValidator |-> "EventGetValidator"]>>

\* What the constructor creates, in order, when the handler directory exists.
BackendCreated(props) ==
  LET isProd == props.environment = "prod"
      lambdaConfig == Coalesce(props.lambda,
                               [memorySize |-> None, timeout |-> None, logLevel |-> None])
      apiConfig == Coalesce(props.api, [enableTracing |-> None])
  IN  [created |-> <<"EventHandlerFunction", "grantReadWriteData", "EventsApi", "EventModel">>,
       eventHandlerFunction |->
         Some([functionName |-> Name(props.appName, "-event-handler-", props.environment),
               LOG_LEVEL |-> OrElse(lambdaConfig.logLevel,
                                    IF isProd THEN "INFO" ELSE "DEBUG"),
               timeout |-> OrElseNumber(lambdaConfig.timeout, 30),
               memorySize |-> OrElseNumber(lambdaConfig.memorySize, 256)]),
       api |->
         Some([restApiName |-> Name(props.appName, "-api-", props.environment),
               stageName |-> props.environment,
               dataTraceEnabled |-> DefinedOr(apiConfig.enableTracing, ~isProd),
               endpointExportName |->
                 Name(props.appName, "-api-endpoint-", props.environment)]),
       routes |-> setupApiRoutes]

\* A BackendConstruct that looks for the handler directory after creating
\* the Lambda function.
BackendConstructCheckingLate(props, existsSync) ==
  IF ~existsSync
  THEN [class |-> "BackendConstruct", props |-> props, existsSync |-> existsSync,
        threw |-> TRUE,
        created |-> <<"EventHandlerFunction">>,
        eventHandlerFunction |-> BackendCreated(props).eventHandlerFunction,
        api |-> None, routes |-> <<>>]
  ELSE [class |-> "BackendConstruct", props |-> props, existsSync |-> existsSync,
        threw |-> FALSE,
        created |-> BackendCreated(props).created,
        eventHandlerFunction |-> BackendCreated(props).eventHandlerFunction,
        api |-> BackendCreated(props).api,
        routes |-> BackendCreated(props).routes]

\* new BackendConstruct(scope, id, props), existsSync being what
\* fs.existsSync(lambdaHandlerPath) answers: the constructor throws before it
\* creates anything when the directory is missing.
BackendConstruct(props, existsSync) ==
  IF ~existsSync
  THEN [class |-> "BackendConstruct", props |-> props, existsSync |-> existsSync,
        threw |-> TRUE,
        created |-> <<>>, eventHandlerFunction |-> None, api |-> None, routes |-> <<>>]
  ELSE [class |-> "BackendConstruct", props |-> props, existsSync |-> existsSync,
        threw |-> FALSE,
        created |-> BackendCreated(props).created,
        eventHandlerFunction |-> BackendCreated(props).eventHandlerFunction,
        api |-> BackendCreated(props).api,
        routes |-> BackendCreated(props).routes]

\* ---- the stacks

\* `{ ...props, description: '...' }`: the stack's own description replaces
\* the one in the props.
StackProps(props, description) == [props EXCEPT !.description = Some(description)]

\* exportOutputs(appName, environment, outputs): the four outputs of a stack.
exportOutputs(appName, environment) ==
  <<[id |-> "ApiEndpointOutput",
     exportName |-> Name(appName, "-api-endpoint-", environment)],
    [id |-> "FrontendUrlOutput",
     exportName |-> Name(appName, "-frontend-url-", environment)],
    [id |-> "WebsiteBucketNameOutput",
     exportName |-> Name(appName, "-website-bucket-", environment)],
    [id |-> "DynamoDBTableNameOutput",
     exportName |-> Name(appName, "-dynamodb-table-", environment)]>>

\* The constructor of a stack after super(): the database, the backend and,
\* unless the backend threw, the frontend and the outputs.
StackBody(class, id, props, superProps, tags, database, backend, frontend, outputs) ==
  [class |-> class,
   id |-> id,
   props |-> props,
   description |-> superProps.description,
   env |-> superProps.env,
   tags |-> tags,
   threw |-> backend.threw,
   database |-> database,
   backend |-> backend,
   frontend |-> IF backend.threw THEN None ELSE Some(frontend),
   outputs |-> IF backend.threw THEN <<>> ELSE outputs]

\* new ProductionStack(scope, id, props).
ProductionStack(id, props, existsSync) ==
  LET appName == "summit-milan-demo"
      environment == "prod"
  IN  StackBody("ProductionStack", id, props,
        StackProps(props, <<"Stack di produzione per il Summit Milan 2025">>),
        <<<<"Project", "SummitMilan2025">>, <<"Environment", "Production">>,
          <<"ManagedBy", "CDK">>, <<"Purpose", "Production">>,
          <<"CostCenter", "CloudInfrastructure">>, <<"BusinessUnit", "Engineering">>>>,
        DatabaseConstruct(
          [appName |-> appName, environment |-> environment,
           enablePointInTimeRecovery |-> Some(TRUE),
           preserveTableOnDelete |-> Some(TRUE),
           tags |-> Some(<<<<"DataProtection", "High">>, <<"BackupFrequency", "Daily">>>>)]),
        BackendConstruct(
          [appName |-> appName, environment |-> environment,
           lambda |-> Some([memorySize |-> Some(512), timeout |-> Some(30),
                            logLevel |-> Some("INFO")]),
           api |-> Some([enableTracing |-> Some(FALSE)])],
          existsSync),
        FrontendConstruct(
          [appName |-> appName, environment |-> environment,
           s3 |-> Some([autoDeleteObjects |-> Some(FALSE),
                        preserveBucketOnDelete |-> Some(TRUE)]),
           cloudfront |-> Some([enableCompression |-> Some(TRUE),
                                enableLogging |-> Some(TRUE),
                                minimumProtocolVersion |-> Some("TLS_V1_2_2021")])]),
        exportOutputs(appName, environment))

\* new DevelopmentStack(scope, id, props).
DevelopmentStack(id, props, existsSync) ==
  LET appName == "summit-milan-demo"
      environment == "dev"
  IN  StackBody("DevelopmentStack", id, props,
        StackProps(props, <<"Stack di sviluppo per il Summit Milan 2025">>),
        <<<<"Project", "SummitMilan2025">>, <<"Environment", "Development">>,
          <<"ManagedBy", "CDK">>, <<"Purpose", "Demo">>>>,
        DatabaseConstruct(
          [appName |-> appName, environment |-> environment,
           enablePointInTimeRecovery |-> Some(FALSE),
           preserveTableOnDelete |-> Some(FALSE),
           tags |-> None]),
        BackendConstruct(
          [appName |-> appName, environment |-> environment,
           lambda |-> Some([memorySize |-> Some(256), timeout |-> Some(30),
                            logLevel |-> Some("DEBUG")]),
           api |-> Some([enableTracing |-> Some(TRUE)])],
          existsSync),
        FrontendConstruct(
          [appName |-> appName, environment |-> environment,
           s3 |-> Some([autoDeleteObjects |-> Some(TRUE),
                        preserveBucketOnDelete |-> Some(FALSE)]),
           cloudfront |-> Some([enableCompression |-> None,
                                enableLogging |-> Some(TRUE),
                                minimumProtocolVersion |-> Some("TLS_V1_2_2021")])]),
        exportOutputs(appName, environment))

\* ---- the app

\* What the app reads from outside: the context value environment, the two
\* environment variables, and whether the Lambda handler directory exists.
Contexts ==
  [environment : {None, Some(""), Some("dev"), Some("staging"), Some("prod"), Some("Prod")},
   CDK_DEFAULT_ACCOUNT : {None, Some("123456789012")},
   CDK_DEFAULT_REGION : {None, Some("eu-west-1"), Some("us-east-1")},
   existsSync : BOOLEAN]

\* The stacks of an app that takes every environment but 'dev' for production.
stacksForAllButDev(targetEnvironment, envConfig, existsSync) ==
  IF targetEnvironment # "dev"
  THEN <<ProductionStack("SummitMilan2025ProdStack",
           [env |-> envConfig.env,
            description |-> Some(<<"Stack di produzione per il Summit Milan 2025",
                                   " - Ambiente: ", targetEnvironment>>)],
           existsSync)>>
  ELSE <<DevelopmentStack("SummitMilan2025DevStack",
           [env |-> envConfig.env,
            description |-> Some(<<"Stack di sviluppo per il Summit Milan 2025",
                                   " - Ambiente: ", targetEnvironment>>)],
           existsSync)>>

\* The stacks the app creates for the target environment.
stacksFor(targetEnvironment, envConfig, existsSync) ==
  IF targetEnvironment = "prod"
  THEN <<ProductionStack("SummitMilan2025ProdStack",
           [env |-> envConfig.env,
            description |-> Some(<<"Stack di produzione per il Summit Milan 2025",
                                   " - Ambiente: ", targetEnvironment>>)],
           existsSync)>>
  ELSE <<DevelopmentStack("SummitMilan2025DevStack",
           [env |-> envConfig.env,
            description |-> Some(<<"Stack di sviluppo per il Summit Milan 2025",
                                   " - Ambiente: ", targetEnvironment>>)],
           existsSync)>>

\* ------------------------------------------------------------------ state

VARIABLES
  props,            \* the props the aspect was constructed from
  this,             \* the DocumentationAspect: requiredTags, strict, excludeResourceTypes
  tree,             \* paths of the constructs visited so far, in visiting order
  node,             \* the construct of the last visit (None before the first)
  annotations,      \* annotations added by the aspect, in order
  twinAnnotations,  \* annotations of an aspect that differs in strict only
  constructs,       \* the construct tree of a repeated synthesis, in pre-order
  run,              \* 1 in the first synthesis of the tree, 2 in the repeated one
  firstRun,         \* annotations of the first synthesis, kept when it is repeated
  construct,        \* the construct instantiated last, on its own (None before)
  pc,               \* where the app is: start, configured, created, threw, checked, synthesized
  context,          \* what the app reads from outside
  targetEnvironment,\* the app's targetEnvironment, once read
  envConfig,        \* the app's envConfig, once built
  stacks,           \* the stacks the app has created, in order
  compliance        \* the ComplianceAspect the app has added (None before)

aspectVars ==
  <<props, this, tree, node, annotations, twinAnnotations, constructs, run, firstRun>>

appVars == <<pc, context, targetEnvironment, envConfig, stacks, compliance>>

vars == <<aspectVars, construct, appVars>>

\* The aspect built from the same props with the other value of strict.
Twin == [this EXCEPT !.strict = ~this.strict]

\* Constructs that can come next in the pre-order walk: the root first, then
\* a child of a construct already visited.
NextPaths ==
  IF tree = <<>> THEN {<<1>>}
  ELSE {Append(tree[i], Len(tree) + 1) : i \in 1..Len(tree)}

NextNodes ==
  {[path |-> p, isCfnResource |-> TRUE, cfnResourceType |-> ty, tags |-> tg] :
     p \in NextPaths, ty \in {"AWS::DynamoDB::Table"}, tg \in ResourceTags}
  \cup
  {[path |-> p, isCfnResource |-> TRUE, cfnResourceType |-> ty, tags |-> tg] :
     p \in NextPaths, ty \in CfnTypes, tg \in FewTags}
  \cup
  {[path |-> p, isCfnResource |-> FALSE, cfnResourceType |-> NoType, tags |-> tg] :
     p \in NextPaths, tg \in FewTags}

\* No app is run and no construct is instantiated on its own.
NoInfrastructure ==
  /\ construct = None
  /\ pc = "off"
  /\ context = None
  /\ targetEnvironment = None
  /\ envConfig = None
  /\ stacks = <<>>
  /\ compliance = None

Init ==
  /\ props \in DocumentationAspectProps
  /\ this = constructor(props)
  /\ tree = <<>>
  /\ node = None
  /\ annotations = <<>>
  /\ twinAnnotations = <<>>
  /\ constructs = <<>>
  /\ run = 1
  /\ firstRun = <<>>
  /\ NoInfrastructure

\* The synthesis visits the next construct with the aspect.
Visit ==
  /\ Len(tree) < MaxNodes
  /\ \E n \in NextNodes :
       /\ node' = Some(n)
       /\ tree' = Append(tree, n.path)
       /\ annotations' = annotations \o visit(this, n)
       /\ twinAnnotations' = twinAnnotations \o visit(Twin, n)
  /\ UNCHANGED <<props, this, constructs, run, firstRun, construct, appVars>>

Next == Visit

Spec == Init /\ [][Next]_vars

\* ------------------------------------------------------------------ repeated synthesis

\* Tags of the constructs of a tree that is synthesized twice: no tag
\* manager, a tag manager without tags field, Owner alone, Owner and Purpose.
RerunTags ==
  {None, Some([tags |-> None]),
   Some([tags |-> Some(<<<<"Owner", "team-x">>>>)]),
   Some([tags |-> Some(<<<<"Owner", "team-x">>, <<"Purpose", "">>>>)])}

\* The root is 'root', every other construct 'root/<i>'.
PathAt(i) == IF i = 1 THEN <<1>> ELSE <<1, i>>

ConstructsAt(i) ==
  {[path |-> PathAt(i), isCfnResource |-> TRUE, cfnResourceType |-> ty, tags |-> tg] :
     ty \in {"AWS::S3::Bucket", "AWS::DynamoDB::Table"}, tg \in RerunTags}
  \cup
  {[path |-> PathAt(i), isCfnResource |-> FALSE, cfnResourceType |-> NoType, tags |-> None]}

Trees ==
  UNION {{t \in [1..k -> UNION {ConstructsAt(i) : i \in 1..k}] :
            \A i \in 1..k : t[i] \in ConstructsAt(i)} : k \in 1..MaxNodes}

RerunInit ==
  /\ props \in DocumentationAspectProps
  /\ this = constructor(props)
  /\ constructs \in Trees
  /\ tree = <<>>
  /\ node = None
  /\ annotations = <<>>
  /\ twinAnnotations = <<>>
  /\ run = 1
  /\ firstRun = <<>>
  /\ NoInfrastructure

\* The synthesis visits the next construct of the tree with the aspect.
VisitConstruct ==
  /\ Len(tree) < Len(constructs)
  /\ LET i == Len(tree) + 1
         n == constructs[i]
     IN  /\ node' = Some(n)
         /\ tree' = Append(tree, n.path)
         /\ annotations' = annotations \o visit(this, n)
         /\ twinAnnotations' = twinAnnotations \o visit(Twin, n)
         /\ constructs' = [constructs EXCEPT ![i] = nodeAfterVisit(this, n)]
         /\ this' = thisAfterVisit(this, n)
  /\ UNCHANGED <<props, run, firstRun, construct, appVars>>

\* The tree is synthesized again with the same aspect.
Resynthesize ==
  /\ run = 1
  /\ Len(tree) = Len(constructs)
  /\ run' = 2
  /\ firstRun' = annotations
  /\ annotations' = <<>>
  /\ twinAnnotations' = <<>>
  /\ tree' = <<>>
  /\ node' = None
  /\ UNCHANGED <<props, this, constructs, construct, appVars>>

RerunNext == VisitConstruct \/ Resynthesize

SpecRerun == RerunInit /\ [][RerunNext]_vars

\* ------------------------------------------------------------------ constructs on their own

\* No aspect is being run.
NoAspect ==
  /\ props = None
  /\ this = None
  /\ tree = <<>>
  /\ node = None
  /\ annotations = <<>>
  /\ twinAnnotations = <<>>
  /\ constructs = <<>>
  /\ run = 1
  /\ firstRun = <<>>

\* No construct has been instantiated yet.
ConstructsInit ==
  /\ NoInfrastructure
  /\ NoAspect

NewComplianceAspect ==
  /\ \E p \in ComplianceAspectProps : construct' = Some(ComplianceAspect(p))
  /\ UNCHANGED <<aspectVars, appVars>>

NewDatabaseConstruct ==
  /\ \E p \in DatabaseConstructProps : construct' = Some(DatabaseConstruct(p))
  /\ UNCHANGED <<aspectVars, appVars>>

NewFrontendConstruct ==
  /\ \E p \in FrontendConstructProps : construct' = Some(FrontendConstruct(p))
  /\ UNCHANGED <<aspectVars, appVars>>

NewDocumentedBucket ==
  /\ \E p \in DocumentedBucketProps : construct' = Some(DocumentedBucket(p))
  /\ UNCHANGED <<aspectVars, appVars>>

NewBackendConstruct ==
  /\ \E p \in BackendConstructProps, existsSync \in BOOLEAN :
       construct' = Some(BackendConstruct(p, existsSync))
  /\ UNCHANGED <<aspectVars, appVars>>

ConstructsNext ==
  \/ NewComplianceAspect
  \/ NewDatabaseConstruct
  \/ NewFrontendConstruct
  \/ NewDocumentedBucket
  \/ NewBackendConstruct

SpecConstructs == ConstructsInit /\ [][ConstructsNext]_vars

\* ------------------------------------------------------------------ the app

AppInit ==
  /\ pc = "start"
  /\ context \in {Some(c) : c \in Contexts}
  /\ targetEnvironment = None
  /\ envConfig = None
  /\ stacks = <<>>
  /\ compliance = None
  /\ construct = None
  /\ NoAspect

\* The app reads the context and the environment variables.
Configure ==
  /\ pc = "start"
  /\ targetEnvironment' = Some(OrElse(context[1].environment, "dev"))
  /\ envConfig' = Some([env |-> [account |-> context[1].CDK_DEFAULT_ACCOUNT,
                                 region |-> OrElse(context[1].CDK_DEFAULT_REGION,
                                                   "eu-west-1")]])
  /\ pc' = "configured"
  /\ UNCHANGED <<context, stacks, compliance, construct, aspectVars>>

\* The app creates the stack of the target environment; the constructor
\* throws where the backend does, and the app ends there.
CreateStack ==
  /\ pc = "configured"
  /\ stacks' = stacks \o stacksFor(targetEnvironment[1], envConfig[1],
                                   context[1].existsSync)
  /\ pc' = IF \E i \in 1..Len(stacks') : stacks'[i].threw THEN "threw" ELSE "created"
  /\ UNCHANGED <<context, targetEnvironment, envConfig, compliance, construct, aspectVars>>

\* The app adds the compliance checks to the stack.
AddComplianceAspect ==
  /\ pc = "created"
  /\ compliance' = Some(ComplianceAspect(
                          Some([strict |-> Some(targetEnvironment[1] = "prod"),
                                suppressions |-> Some(AppSuppressions)])))
  /\ pc' = "checked"
  /\ UNCHANGED <<context, targetEnvironment, envConfig, stacks, construct, aspectVars>>

\* app.synth().
Synth ==
  /\ pc = "checked"
  /\ pc' = "synthesized"
  /\ UNCHANGED <<context, targetEnvironment, envConfig, stacks, compliance,
                 construct, aspectVars>>

AppNext == Configure \/ CreateStack \/ AddComplianceAspect \/ Synth

SpecApp == AppInit /\ [][AppNext]_vars

\* ------------------------------------------------------------------ vocabulary of the properties

\* The resource types visit never reports, as the claims list them.
NonTaggableTypes ==
  {"AWS::CloudFormation::Output", "AWS::CDK::Metadata", "Custom::CDKBucketDeployment"}

\* The exclusion set the aspect was configured with.
ExcludedTypes ==
  IF props.excludeResourceTypes = None THEN {}
  ELSE {props.excludeResourceTypes[1][i] : i \in 1..Len(props.excludeResourceTypes[1])}

\* The entries of a node's tag map (none when it has no tag manager).
TagEntries(n) ==
  IF n.tags = None THEN <<>>
  ELSE IF n.tags[1].tags = None THEN <<>>
  ELSE n.tags[1].tags[1]

TagKeySet(n) == {TagEntries(n)[i][1] : i \in 1..Len(TagEntries(n))}

\* A node the tag policy is in scope for.
Eligible(n) ==
  /\ n.isCfnResource
  /\ n.cfnResourceType \notin NonTaggableTypes
  /\ n.cfnResourceType \notin ExcludedTypes

RequiredKeySet == {props.requiredTags[i] : i \in 1..Len(props.requiredTags)}

AbsentKeys(n) == RequiredKeySet \ TagKeySet(n)

IsAt(a, path) == a.path = path

FindingsAt(anns, path) == SelectSeq(anns, LAMBDA a : IsAt(a, path))

NamedKeys(a) == {a.message.missingTags[i] : i \in 1..Len(a.message.missingTags)}

Visited == node # None

Last == node[1]

\* ------------------------------------------------------------------ C1

\* C1 as stated: a taggable, non-excluded node gets exactly one finding per
\* required key absent from its tag map, each naming that one key, so a node
\* missing k required tags has k findings.
C1_OneFindingPerAbsentKey ==
  (Visited /\ Eligible(Last)) =>
    LET f == FindingsAt(annotations, Last.path)
    IN  /\ Len(f) = Cardinality(AbsentKeys(Last))
        /\ \A k \in AbsentKeys(Last) : \E i \in 1..Len(f) : NamedKeys(f[i]) = {k}

\* C1 as amended: a taggable, non-excluded node gets one finding when at
\* least one required key is absent from its tag map and none otherwise; the
\* finding names every absent required key, once per occurrence in the
\* required list, and no key that is present.
C1_OneFindingNamingAbsentKeys ==
  (Visited /\ Eligible(Last)) =>
    LET f == FindingsAt(annotations, Last.path)
        absentAt == {j \in 1..Len(props.requiredTags) :
                       props.requiredTags[j] \notin TagKeySet(Last)}
    IN  /\ Len(f) = (IF AbsentKeys(Last) = {} THEN 0 ELSE 1)
        /\ \A i \in 1..Len(f) :
             /\ NamedKeys(f[i]) = AbsentKeys(Last)
             /\ Len(f[i].message.missingTags) = Cardinality(absentAt)

\* A node missing two required tags has been visited and carries one finding.
C1_Witness ==
  /\ Visited
  /\ Eligible(Last)
  /\ Cardinality(AbsentKeys(Last)) = 2
  /\ Len(FindingsAt(annotations, Last.path)) = 1

\* ------------------------------------------------------------------ C2

\* C2: a construct that is not a CfnResource, or whose type is one of
\* AWS::CloudFormation::Output, AWS::CDK::Metadata, Custom::CDKBucketDeployment,
\* never gets a missing-tag finding, whatever the required tags, its tags and
\* strict: none at the node just visited, and no finding of any run names
\* such a type.
C2_NonTaggableNeverReported ==
  /\ (Visited /\ (~Last.isCfnResource \/ Last.cfnResourceType \in NonTaggableTypes)) =>
       /\ FindingsAt(annotations, Last.path) = <<>>
       /\ FindingsAt(twinAnnotations, Last.path) = <<>>
  /\ \A i \in 1..Len(annotations) :
       annotations[i].message.resourceType \notin NonTaggableTypes \cup {NoType}
  /\ \A i \in 1..Len(twinAnnotations) :
       twinAnnotations[i].message.resourceType \notin NonTaggableTypes \cup {NoType}

\* A deployment helper without any tag was visited under a non-empty
\* required list.
C2_Witness ==
  /\ Visited
  /\ Last.cfnResourceType = "Custom::CDKBucketDeployment"
  /\ TagKeySet(Last) = {}
  /\ Len(props.requiredTags) = 2
  /\ FindingsAt(annotations, Last.path) = <<>>

\* ------------------------------------------------------------------ C3

\* C3: visiting a resource whose type is in the exclusion set adds nothing
\* to what the run has recorded: the findings after the visit are the
\* findings before it, as if the node were not in the tree.
C3_ExcludedNodeLeavesNoTrace ==
  [][(node' # None /\ node'[1].isCfnResource /\ node'[1].cfnResourceType \in ExcludedTypes)
       => (annotations' = annotations /\ twinAnnotations' = twinAnnotations)]_vars

\* An excluded bucket lacking every required tag was visited after a node
\* that was reported, and the run holds that one finding only.
C3_Witness ==
  /\ Visited
  /\ Last.cfnResourceType \in ExcludedTypes
  /\ Last.isCfnResource
  /\ TagKeySet(Last) = {}
  /\ props.requiredTags # <<>>
  /\ Len(annotations) = 1
  /\ annotations[1].path # Last.path

\* ------------------------------------------------------------------ C4

LowerCase(k) == IF k = "Owner" THEN "owner" ELSE k

\* C4: at a node in scope, a required key that the tag map holds with the
\* empty string as value is not reported, and a required key that the tag
\* map holds only in another letter case is reported.
C4_PresenceByKeyOnly ==
  (Visited /\ Eligible(Last)) =>
    \A r \in RequiredKeySet :
      LET named == \E i \in 1..Len(annotations) :
                     annotations[i].path = Last.path /\ r \in NamedKeys(annotations[i])
          e == TagEntries(Last)
      IN  /\ (\E i \in 1..Len(e) : e[i] = <<r, "">>) => ~named
          /\ (r \notin TagKeySet(Last) /\ LowerCase(r) \in TagKeySet(Last)) => named

\* Owner is required and present with the empty value, so not reported,
\* while the node is reported for Purpose.
C4_WitnessEmptyValue ==
  /\ Visited
  /\ Eligible(Last)
  /\ props.requiredTags = <<"Owner", "Purpose">>
  /\ TagEntries(Last) = <<<<"Owner", "">>>>
  /\ Len(FindingsAt(annotations, Last.path)) = 1
  /\ NamedKeys(FindingsAt(annotations, Last.path)[1]) = {"Purpose"}

\* ------------------------------------------------------------------ C5

IsAbsentAtLast(k) == k \notin TagKeySet(Last)

\* The node with the entries of its tag map in another order.
Reordered(n, p) ==
  [n EXCEPT !.tags = Some([tags |-> Some([i \in 1..Len(TagEntries(n)) |-> TagEntries(n)[p[i]]])])]

\* C5: the finding of a node lists the missing keys in the order of the
\* required-tag list, and reordering the node's tag map changes nothing.
C5_MissingInConfigurationOrder ==
  (Visited /\ Eligible(Last)) =>
    /\ \A i \in 1..Len(annotations) :
         annotations[i].path = Last.path =>
           annotations[i].message.missingTags = SelectSeq(props.requiredTags, IsAbsentAtLast)
    /\ (Last.tags # None /\ Last.tags[1].tags # None) =>
         \A p \in Permutations(1..Len(TagEntries(Last))) :
           visit(this, Reordered(Last, p)) = visit(this, Last)

\* Purpose is required before Owner, both are missing, and the node holds
\* another tag: the finding lists Purpose, then Owner.
C5_Witness ==
  /\ Visited
  /\ Eligible(Last)
  /\ props.requiredTags = <<"Purpose", "Owner">>
  /\ TagKeySet(Last) = {"owner"}
  /\ Len(annotations) > 0
  /\ annotations[Len(annotations)].path = Last.path
  /\ annotations[Len(annotations)].message.missingTags = <<"Purpose", "Owner">>

\* ------------------------------------------------------------------ C6

\* C6: every finding is an error when the aspect was given strict = true and
\* a warning when it was given strict = false or no strict at all; a run
\* that is not strict holds no error.
C6_SeverityFollowsStrict ==
  \A i \in 1..Len(annotations) :
    annotations[i].level = (IF props.strict = Some(TRUE) THEN "error" ELSE "warning")

\* strict was omitted and a node was reported, as a warning.
C6_Witness ==
  /\ props.strict = None
  /\ Len(annotations) > 0
  /\ annotations[1].level = "warning"

\* ------------------------------------------------------------------ C7

\* C7: the run of the aspect and the run of the aspect that differs in
\* strict only report the same nodes with the same messages, position by
\* position; the strict one as errors throughout, the other as warnings.
C7_StrictAndLenientAgree ==
  /\ Len(annotations) = Len(twinAnnotations)
  /\ \A i \in 1..Len(annotations) :
       /\ annotations[i].path = twinAnnotations[i].path
       /\ annotations[i].message = twinAnnotations[i].message
       /\ annotations[i].level = (IF this.strict THEN "error" ELSE "warning")
       /\ twinAnnotations[i].level = (IF this.strict THEN "warning" ELSE "error")

\* Both nodes of the tree were reported, one of them for two missing tags.
C7_Witness ==
  /\ Len(annotations) = 2
  /\ Len(twinAnnotations) = 2
  /\ \E i \in 1..2 : Len(annotations[i].message.missingTags) = 2
  /\ this.strict

\* ------------------------------------------------------------------ C15

RunDone == Len(tree) = Len(constructs)

NoError(anns) == \A i \in 1..Len(anns) : anns[i].level # "error"

ScenarioTree ==
  <<[path |-> <<1>>, isCfnResource |-> FALSE, cfnResourceType |-> NoType, tags |-> None],
    [path |-> <<1, 2>>, isCfnResource |-> TRUE, cfnResourceType |-> "AWS::S3::Bucket",
     tags |-> Some([tags |-> Some(<<<<"Owner", "team-x">>>>)])]>>

ScenarioRan ==
  /\ constructs = ScenarioTree
  /\ props.requiredTags = <<"Owner", "Purpose">>
  /\ props.strict = Some(FALSE)
  /\ props.excludeResourceTypes = None
  /\ run = 1
  /\ RunDone

\* C18: the synthesis of the scenario tree with required tags Owner and
\* Purpose and strict = false ends with exactly one finding, at the bucket,
\* a warning whose message names Purpose and not Owner, and with no error.
C18_LenientScenario ==
  ScenarioRan =>
    /\ Len(annotations) = 1
    /\ annotations[1].path = <<1, 2>>
    /\ annotations[1].message.resourceType = "AWS::S3::Bucket"
    /\ annotations[1].level = "warning"
    /\ NamedKeys(annotations[1]) = {"Purpose"}
    /\ NoError(annotations)

\* The scenario has run to its end and left a finding, yet no error.
C18_Witness ==
  /\ ScenarioRan
  /\ Len(annotations) = 1
  /\ NoError(annotations)

\* ------------------------------------------------------------------ C19

VisitedPaths == {tree[i] : i \in 1..Len(tree)}

IsAtVisited(a) == a.path \in VisitedPaths

Is(class) == IsSome(construct) /\ construct[1].class = class

It == construct[1]

\* The props of a ComplianceAspect with strict set to s and nothing else changed.
WithStrict(p, s) ==
  IF IsSome(p) THEN Some([p[1] EXCEPT !.strict = s])
  ELSE Some([strict |-> s, suppressions |-> None])

\* Point-in-time recovery is on for the table.
RecoveryEnabled(table) == table.pointInTimeRecovery = Some(TRUE)

\* The export names of a stack: the REST API's and the stack's outputs'.
ExportNames(stack) ==
  (IF IsSome(stack.backend.api) THEN <<stack.backend.api[1].endpointExportName>> ELSE <<>>)
  \o [i \in 1..Len(stack.outputs) |-> stack.outputs[i].exportName]

\* The stack has been created.
StackCreated == pc \in {"created", "threw", "checked", "synthesized"}

\* ------------------------------------------------------------------ C21

\* C21: strict has no influence on whether suppressed findings are logged:
\* ComplianceAspect configurations that differ only in strict hand the
\* compliance checks the same setting for logging suppressed findings.
C21_StrictApartFromSuppressedLogging ==
  Is("ComplianceAspect") =>
    \A s \in OptionalFlags :
      ComplianceAspect(WithStrict(It.props, s)).checks.logIgnores = It.checks.logIgnores

\* ------------------------------------------------------------------ C22

\* C22: an app run creates no stack before the selection and exactly one
\* from then on; it is the ProductionStack if and only if the context value
\* environment is 'prod' and the DevelopmentStack for every other value,
\* absent included; the compliance aspect, once added, is strict exactly
\* for 'prod'.
C22_StackFollowsEnvironment ==
  /\ ~StackCreated => stacks = <<>>
  /\ StackCreated =>
       /\ Len(stacks) = 1
       /\ stacks[1].class = (IF context[1].environment = Some("prod")
                             THEN "ProductionStack" ELSE "DevelopmentStack")
  /\ pc \in {"checked", "synthesized"} <=> IsSome(compliance)
  /\ IsSome(compliance) =>
       compliance[1].props[1].strict = Some(context[1].environment = Some("prod"))

\* The app ran to the end for the context value 'staging': one
\* DevelopmentStack, compliance not strict.
C22_Witness ==
  /\ pc = "synthesized"
  /\ context[1].environment = Some("staging")
  /\ Len(stacks) = 1
  /\ stacks[1].class = "DevelopmentStack"
  /\ compliance[1].props[1].strict = Some(FALSE)

\* ------------------------------------------------------------------ C23

\* C23: for environment 'prod' the events table of a DatabaseConstruct and
\* the website bucket of a FrontendConstruct have removal policy RETAIN,
\* whatever preserveTableOnDelete and preserveBucketOnDelete are.
C23_ProductionRetains ==
  /\ (Is("DatabaseConstruct") /\ It.props.environment = "prod") =>
       It.eventsTable.removalPolicy = "RETAIN"
  /\ (Is("FrontendConstruct") /\ It.props.environment = "prod") =>
       It.websiteBucket.removalPolicy = "RETAIN"

\* A production table was created with preserveTableOnDelete false and is
\* retained.
C23_Witness ==
  /\ Is("DatabaseConstruct")
  /\ It.props.environment = "prod"
  /\ It.props.preserveTableOnDelete = Some(FALSE)
  /\ It.eventsTable.removalPolicy = "RETAIN"

\* ------------------------------------------------------------------ C24

C25_BucketSecureAsDocumented ==
  Is("DocumentedBucket") =>
    /\ It.bucket.encryption # "UNENCRYPTED"
    /\ It.bucket.blockPublicAccess = "BLOCK_ALL"
    /\ It.bucket.enforceSSL
    /\ IsSome(It.documentation) =>
         /\ It.documentation[1].AccessoPubblico = "Bloccato"
         /\ It.documentation[1].SSL = "Obbligatorio"
         /\ It.documentation[1].Versioning = "Abilitato" <=> It.props.environment = "prod"
         /\ It.documentation[1].Versioning = "Abilitato" <=> It.bucket.versioned

\* ------------------------------------------------------------------ C26

\* C26: every stack the app creates has the description the app passed in
\* its props, the one that names the target environment.
C26_StackCarriesPassedDescription ==
  \A i \in 1..Len(stacks) : stacks[i].description = stacks[i].props.description

\* ------------------------------------------------------------------ C27

C28_ExportNamesDistinct ==
  \A k \in 1..Len(stacks) :
    LET names == ExportNames(stacks[k])
    IN  \A i, j \in 1..Len(names) : i # j => names[i] # names[j]

\* ------------------------------------------------------------------ C29

\* C29: the website bucket of a FrontendConstruct never has
\* autoDeleteObjects true together with removal policy RETAIN.
C29_AutoDeleteImpliesDestroy ==
  Is("FrontendConstruct") =>
    (It.websiteBucket.autoDeleteObjects => It.websiteBucket.removalPolicy = "DESTROY")

\* ------------------------------------------------------------------ C30

\* C30: a CloudFormation resource without tag manager, whose type is neither
\* excluded nor non-taggable, gets one finding that names every required
\* tag when the required list is not empty, an error when strict and a
\* warning otherwise; with an empty required list nothing is ever reported.
C30_NoTagManagerMissesEveryTag ==
  /\ (Visited /\ Eligible(Last) /\ Last.tags = None /\ props.requiredTags # <<>>) =>
       LET f == FindingsAt(annotations, Last.path)
       IN  /\ Len(f) = 1
           /\ f[1].message.missingTags = props.requiredTags
           /\ f[1].level = (IF this.strict THEN "error" ELSE "warning")
  /\ props.requiredTags = <<>> => (annotations = <<>> /\ twinAnnotations = <<>>)

\* A resource in scope without tag manager was visited by a strict aspect
\* requiring two tags and carries an error naming both.
C30_Witness ==
  /\ Visited
  /\ Eligible(Last)
  /\ Last.tags = None
  /\ Len(props.requiredTags) = 2
  /\ this.strict
  /\ Len(FindingsAt(annotations, Last.path)) = 1
  /\ FindingsAt(annotations, Last.path)[1].level = "error"
  /\ FindingsAt(annotations, Last.path)[1].message.missingTags = props.requiredTags

====
